---- MODULE Spec2Model ----
(***************************************************************************)
(* State-machine model of cppForSwig/EncryptionUtils.h:                    *)
(*   - SecureBinaryData: a byte vector whose storage is mlock'ed while it  *)
(*     holds bytes and overwritten by destroy();                           *)
(*   - KdfRomix: the ROMix key derivation with its reused lookup table;    *)
(*   - CryptoAES: Encrypt / Decrypt and the way their arguments are passed.*)
(* The heap is modelled explicitly (addresses, pages, a set of locked      *)
(* pages) so that "what is left in released storage" and "which pages are  *)
(* locked" are observable.                                                 *)
(***************************************************************************)
EXTENDS Integers, Sequences, FiniteSets, TLC

VARIABLES
    mem,        \* heap: address -> byte (freed storage keeps its bytes)
    locked,     \* set of pages currently mlock'ed (mlock does not nest)
    bufs,       \* SecureBinaryData objects: live, ptr, size, cap
    lastOp,     \* the last SecureBinaryData operation and what it released
    kdf,        \* the KdfRomix instance: state, memoryReqtBytes_, ...
    table,      \* KdfRomix::lookupTable_, one cell per 64-byte hash block
    hist,       \* per password: result of the last DeriveKey under the current parameters
    lastKdf,    \* the last KdfRomix operation, its arguments and its outcome
    aesData,    \* caller's data buffer handed to CryptoAES
    aesKey,     \* caller's key buffer
    aesIv,      \* caller's iv buffer
    lastAes     \* the last CryptoAES call and its outcome

bufVars == <<mem, locked, bufs, lastOp>>
kdfVars == <<kdf, table, hist, lastKdf>>
aesVars == <<aesData, aesKey, aesIv, lastAes>>
vars == <<mem, locked, bufs, lastOp, kdf, table, hist, lastKdf,
          aesData, aesKey, aesIv, lastAes>>

(***************************************************************************)
(* Bounds of the model                                                     *)
(***************************************************************************)
HeapSize == 4      \* number of heap addresses
PageSize == 2      \* addresses per page (stands for PAGESIZE)
MaxCap == 2        \* largest vector capacity explored

\* A byte is abstracted to zero / a representative non-zero (secret) value.
Byte == {0, 1}
Bufs == {1, 2}
Addr == 0 .. (HeapSize - 1)
Null == HeapSize           \* data pointer of a vector without storage

Zeros(n) == [i \in 1..n |-> 0]
ByteSeqs(n) == UNION {[1..k -> Byte] : k \in 0..n}

(***************************************************************************)
(* mlock / munlock macros: the range is widened to whole pages.            *)
(*   start = a & ~(PAGESIZE-1);  end = ((a+b-1) | (PAGESIZE-1)) + 1        *)
(***************************************************************************)
PageOf(a) == a \div PageSize
PagesSpanned(a, n) == IF n > 0 THEN PageOf(a) .. PageOf(a + n - 1) ELSE {}

mlock(lk, a, n) == lk \cup PagesSpanned(a, n)
munlock(lk, a, n) == lk \ PagesSpanned(a, n)

(***************************************************************************)
(* BinaryData base class (a std::vector<uint8_t>): ptr, size, capacity     *)
(***************************************************************************)
Dead == [live |-> FALSE, ptr |-> Null, size |-> 0, cap |-> 0]
EmptyVec == [live |-> TRUE, ptr |-> Null, size |-> 0, cap |-> 0]

getSize(v) == v.size
getPtr(v) == v.ptr

BlockOf(v) == IF v.cap > 0 THEN v.ptr .. (v.ptr + v.cap - 1) ELSE {}
InUse(bs) == UNION {BlockOf(bs[b]) : b \in Bufs}
\* where the allocator may place a new block of n bytes
FreeBases(bs, n) ==
    {a \in Addr : a + n <= HeapSize /\ (a .. (a + n - 1)) \cap InUse(bs) = {}}

WriteAt(m, base, bytes) ==
    [a \in Addr |-> IF a >= base /\ a < base + Len(bytes)
                    THEN bytes[a - base + 1] ELSE m[a]]
ContentsOf(m, v) == [i \in 1..v.size |-> m[v.ptr + i - 1]]
AllZero(m, S) == \A a \in S : m[a] = 0
NoRelease == [rel |-> FALSE, zero |-> TRUE, block |-> {}]

\* BinaryData(ptr, sz) / BinaryData(sz): fresh storage holding `bytes`
BinaryData_new(m, bs, bytes) ==
    IF Len(bytes) = 0
    THEN {[mem |-> m, buf |-> EmptyVec]}
    ELSE {[mem |-> WriteAt(m, base, bytes),
           buf |-> [live |-> TRUE, ptr |-> base, size |-> Len(bytes),
                    cap |-> Len(bytes)]] : base \in FreeBases(bs, Len(bytes))}

\* vector reallocation: new block, elements copied, old block freed as it is
VecRealloc(m, bs, v, newSize, newCap) ==
    {[mem |-> WriteAt(m, base, ContentsOf(m, v) \o Zeros(newSize - v.size)),
      buf |-> [live |-> TRUE, ptr |-> base, size |-> newSize, cap |-> newCap],
      rel |-> [rel |-> v.cap > 0, zero |-> AllZero(m, BlockOf(v)),
               block |-> BlockOf(v)]] : base \in FreeBases(bs, newCap)}

\* BinaryData::resize(sz): shrink in place, grow in place, or reallocate
BinaryData_resize(m, bs, v, n) ==
    IF n <= v.cap
    THEN {[mem |-> IF n > v.size
                   THEN WriteAt(m, v.ptr + v.size, Zeros(n - v.size)) ELSE m,
           buf |-> [v EXCEPT !.size = n],
           rel |-> NoRelease]}
    ELSE UNION {VecRealloc(m, bs, v, n, c) : c \in n..MaxCap}

\* BinaryData::reserve(sz): reallocate when sz exceeds the capacity
BinaryData_reserve(m, bs, v, n) ==
    IF n <= v.cap
    THEN {[mem |-> m, buf |-> v, rel |-> NoRelease]}
    ELSE UNION {VecRealloc(m, bs, v, v.size, c) : c \in n..MaxCap}

\* BinaryData::fill(ch): overwrite the first getSize() bytes
BinaryData_fill(m, v, ch) ==
    WriteAt(m, v.ptr, [i \in 1..v.size |-> ch])

(***************************************************************************)
(* SecureBinaryData                                                        *)
(***************************************************************************)
\* variant: lockData() that never calls mlock
lockData_skip(lk, v) == lk

\* lockData(): if(getSize() > 0) mlock(getPtr(), getSize())
lockData(lk, v) ==
    IF getSize(v) > 0 THEN mlock(lk, getPtr(v), getSize(v)) ELSE lk

\* destroy(): if(getSize() > 0) { fill(0x00); munlock(getPtr(), getSize()); }
destroy(m, lk, v) ==
    IF getSize(v) > 0
    THEN [mem |-> BinaryData_fill(m, v, 0),
          locked |-> munlock(lk, getPtr(v), getSize(v))]
    ELSE [mem |-> m, locked |-> lk]

OpRec(name, b, c, rel, lk) ==
    [op |-> name, b |-> b, src |-> c, rel |-> rel.rel, relZero |-> rel.zero,
     relLocked |-> \E a \in rel.block : PageOf(a) \in lk]

\* a constructor body: BinaryData(...) then lockData()
Construct(b, bytes, name) ==
    /\ ~bufs[b].live
    /\ \E o \in BinaryData_new(mem, bufs, bytes) :
          /\ mem' = o.mem
          /\ bufs' = [bufs EXCEPT ![b] = o.buf]
          /\ locked' = lockData(locked, o.buf)
    /\ lastOp' = OpRec(name, b, 0, NoRelease, locked)

\* SecureBinaryData(void)
CtorDefault(b) == Construct(b, <<>>, "ctor")

\* SecureBinaryData(uint32_t sz)
CtorSize(b, sz) == Construct(b, Zeros(sz), "ctor")

\* SecureBinaryData(uint8_t const * inData, size_t sz)
CtorBytes(b, bytes) == Construct(b, bytes, "ctor")

\* variant: a copy constructor that takes over the source's data pointer
CtorCopy_shallow(b, c) ==
    /\ ~bufs[b].live /\ bufs[c].live /\ b # c
    /\ bufs' = [bufs EXCEPT ![b] = bufs[c]]
    /\ mem' = mem
    /\ locked' = lockData(locked, bufs[c])
    /\ lastOp' = OpRec("copy", b, c, NoRelease, locked)

\* SecureBinaryData(SecureBinaryData const & sbd2) :
\*    BinaryData(sbd2.getPtr(), sbd2.getSize()) { lockData(); }
CtorCopy(b, c) ==
    /\ ~bufs[b].live /\ bufs[c].live /\ b # c
    /\ \E o \in BinaryData_new(mem, bufs, ContentsOf(mem, bufs[c])) :
          /\ mem' = o.mem
          /\ bufs' = [bufs EXCEPT ![b] = o.buf]
          /\ locked' = lockData(locked, o.buf)
    /\ lastOp' = OpRec("copy", b, c, NoRelease, locked)

\* void resize(size_t sz) { BinaryData::resize(sz); lockData(); }
resize(b, n) ==
    /\ bufs[b].live
    /\ \E o \in BinaryData_resize(mem, bufs, bufs[b], n) :
          /\ mem' = o.mem
          /\ bufs' = [bufs EXCEPT ![b] = o.buf]
          /\ locked' = lockData(locked, o.buf)
          /\ lastOp' = OpRec("resize", b, 0, o.rel, locked)

\* void reserve(size_t sz) { BinaryData::reserve(sz); lockData(); }
reserve(b, n) ==
    /\ bufs[b].live
    /\ \E o \in BinaryData_reserve(mem, bufs, bufs[b], n) :
          /\ mem' = o.mem
          /\ bufs' = [bufs EXCEPT ![b] = o.buf]
          /\ locked' = lockData(locked, o.buf)
          /\ lastOp' = OpRec("reserve", b, 0, o.rel, locked)

\* fill(ch), inherited from BinaryData: in-place overwrite
fill(b, ch) ==
    /\ bufs[b].live /\ bufs[b].size > 0
    /\ mem' = BinaryData_fill(mem, bufs[b], ch)
    /\ lastOp' = OpRec("fill", b, 0, NoRelease, locked)
    /\ UNCHANGED <<locked, bufs>>

\* ~SecureBinaryData(void) { destroy(); }  then ~BinaryData frees the storage
Destructor(b) ==
    /\ bufs[b].live
    /\ LET d == destroy(mem, locked, bufs[b]) IN
          /\ mem' = d.mem
          /\ locked' = d.locked
          /\ lastOp' = OpRec("destructor", b, 0,
                             [rel |-> bufs[b].cap > 0,
                              zero |-> AllZero(d.mem, BlockOf(bufs[b])),
                              block |-> BlockOf(bufs[b])], d.locked)
    /\ bufs' = [bufs EXCEPT ![b] = Dead]

\* zeroize the whole capacity and unlock it: what the data model asks of a
\* buffer before it gives up its storage
Wipe(m, lk, v) ==
    [mem |-> WriteAt(m, v.ptr, Zeros(v.cap)),
     locked |-> lk \ PagesSpanned(v.ptr, v.cap)]

\* operator=(SecureBinaryData const &): old storage wiped and released, then
\* fresh locked storage holding the other buffer's bytes
operator_assign(b, c) ==
    /\ bufs[b].live /\ bufs[c].live /\ b # c
    /\ LET w == Wipe(mem, locked, bufs[b])
           src == ContentsOf(mem, bufs[c])
           bs == [bufs EXCEPT ![b] = EmptyVec]
       IN  /\ \E o \in BinaryData_new(w.mem, bs, src) :
                 /\ mem' = o.mem
                 /\ bufs' = [bufs EXCEPT ![b] = o.buf]
                 /\ locked' = lockData(w.locked, o.buf)
           /\ lastOp' = OpRec("assign", b, c,
                              [rel |-> bufs[b].cap > 0,
                               zero |-> AllZero(w.mem, BlockOf(bufs[b])),
                               block |-> BlockOf(bufs[b])], w.locked)

\* append(SecureBinaryData &): grow by the other buffer's bytes; when the
\* storage moves the abandoned block is wiped and unlocked, the new one locked
append(b, c) ==
    /\ bufs[b].live /\ bufs[c].live /\ b # c
    /\ bufs[c].size > 0
    /\ bufs[b].size + bufs[c].size <= MaxCap
    /\ LET v == bufs[b]
           src == ContentsOf(mem, bufs[c])
           n == v.size + Len(src)
       IN IF n <= v.cap
          THEN /\ mem' = WriteAt(mem, v.ptr + v.size, src)
               /\ bufs' = [bufs EXCEPT ![b].size = n]
               /\ locked' = lockData(locked, [v EXCEPT !.size = n])
               /\ lastOp' = OpRec("append", b, 0, NoRelease, locked)
          ELSE \E base \in FreeBases(bufs, n) :
               LET nv == [live |-> TRUE, ptr |-> base, size |-> n, cap |-> n]
                   m1 == WriteAt(mem, base, ContentsOf(mem, v) \o src)
                   w == Wipe(m1, locked, v)
               IN /\ mem' = w.mem
                  /\ bufs' = [bufs EXCEPT ![b] = nv]
                  /\ locked' = lockData(w.locked, nv)
                  /\ lastOp' = OpRec("append", b, 0,
                                     [rel |-> v.cap > 0,
                                      zero |-> AllZero(w.mem, BlockOf(v)),
                                      block |-> BlockOf(v)], w.locked)

BufInit ==
    /\ mem = [a \in Addr |-> 0]
    /\ locked = {}
    /\ bufs = [b \in Bufs |-> Dead]
    /\ lastOp = [op |-> "none", b |-> 0, src |-> 0, rel |-> FALSE,
                 relZero |-> TRUE, relLocked |-> FALSE]

KdfIdle ==
    /\ kdf = [state |-> "none", mem |-> 0, iters |-> 0, salt |-> 0]
    /\ table = <<>>
    /\ hist = <<>>
    /\ lastKdf = [op |-> "none"]

AesIdle ==
    /\ aesData = <<>>
    /\ aesKey = <<>>
    /\ aesIv = <<>>
    /\ lastAes = [op |-> "none"]

Idle == UNCHANGED <<kdfVars, aesVars>>

\* two buffers, each under all of its operations
Init == BufInit /\ KdfIdle /\ AesIdle
Next ==
    \/ \E b \in Bufs : CtorDefault(b) /\ Idle
    \/ \E b \in Bufs, sz \in 1..MaxCap : CtorSize(b, sz) /\ Idle
    \/ \E b \in Bufs, bytes \in ByteSeqs(MaxCap) : CtorBytes(b, bytes) /\ Idle
    \/ \E b, c \in Bufs : CtorCopy(b, c) /\ Idle
    \/ \E b \in Bufs, n \in 0..MaxCap : resize(b, n) /\ Idle
    \/ \E b \in Bufs, n \in 0..MaxCap : reserve(b, n) /\ Idle
    \/ \E b \in Bufs, ch \in Byte : fill(b, ch) /\ Idle
    \/ \E b, c \in Bufs : operator_assign(b, c) /\ Idle
    \/ \E b, c \in Bufs : append(b, c) /\ Idle
    \/ \E b \in Bufs : Destructor(b) /\ Idle
Spec == Init /\ [][Next]_vars

\* one buffer under its own operations; buffer 2 is only ever constructed and
\* serves as the argument of copy construction, assignment and append
NextSingle ==
    \/ CtorDefault(1) /\ Idle
    \/ \E sz \in 1..MaxCap : CtorSize(1, sz) /\ Idle
    \/ \E b \in Bufs, bytes \in ByteSeqs(MaxCap) : CtorBytes(b, bytes) /\ Idle
    \/ CtorCopy(1, 2) /\ Idle
    \/ \E n \in 0..MaxCap : resize(1, n) /\ Idle
    \/ \E n \in 0..MaxCap : reserve(1, n) /\ Idle
    \/ \E ch \in Byte : fill(1, ch) /\ Idle
    \/ operator_assign(1, 2) /\ Idle
    \/ append(1, 2) /\ Idle
    \/ Destructor(1) /\ Idle
SpecSingle == Init /\ [][NextSingle]_vars

(***************************************************************************)
(* KdfRomix.  A 64-byte hash block is abstracted to a number below HashMod,*)
(* the lookup table to a sequence of such blocks, a password / key / salt  *)
(* to a small number.                                                      *)
(***************************************************************************)
HashMod == 8            \* number of distinct hash-block values
MaxSeqCount == 2        \* largest sequenceCount given to usePrecomputedKdfParams
MaxIter == 2            \* largest numIterations given to usePrecomputedKdfParams

StartBlocks == 2        \* hash blocks the memory search starts from (16 in
                        \* the program: 1 KiB), scaled down

HashOutputBytes == 64   \* hashOutputBytes_ (SHA-512)
StartMemory == StartBlocks * HashOutputBytes

Passwords == {0, 1}
Salts == {0, 1}
MemChoices == {0, HashOutputBytes - 1} \cup
              {HashOutputBytes * k : k \in 1..MaxSeqCount}
Targets == {4, 8}            \* targetComputeSec, in timer ticks
Timings == {1, 2}            \* one measured DeriveKey_OneIter, in timer ticks
CalTimes == {3, 8}           \* the pass measured to calibrate numIterations_
MaxMemChoices == {StartMemory, 2 * StartMemory, 3 * StartMemory}

RECURSIVE Xor(_, _)
Xor(a, b) ==
    IF a = 0 /\ b = 0 THEN 0
    ELSE (((a % 2) + (b % 2)) % 2) + 2 * Xor(a \div 2, b \div 2)

\* H: the internal hash, block -> block
H(x) == ((5 * x) + 3) % HashMod
\* H(password || salt)
HashPwSalt(pw, salt) == H(((3 * pw) + (5 * salt) + 1) % HashMod)
\* the first 32 of the 64 bytes of X
FirstHalf(x) == x \div 2

SequenceCount(memB) == memB \div HashOutputBytes

\* lookupTable_.resize(memoryReqtBytes_): prefix kept, new cells zero
ResizeTable(tbl, n) == [i \in 1..n |-> IF i <= Len(tbl) THEN tbl[i] ELSE 0]

\* X after k further hashes
RECURSIVE HashChain(_, _)
HashChain(x, k) == IF k = 0 THEN x ELSE H(HashChain(x, k - 1))

\* variant: a fill loop that xors X into the cell instead of storing it
FillPhase_accumulate(tbl, x, n) ==
    [tbl |-> [i \in 1..Len(tbl) |->
                 IF i <= n THEN Xor(tbl[i], HashChain(x, i - 1)) % HashMod
                 ELSE tbl[i]],
     x |-> HashChain(x, n)]

\* fill phase: for i in 0..sequenceCount: table[i] = X; X = H(X)
FillPhase(tbl, x, n) ==
    [tbl |-> [i \in 1..Len(tbl) |->
                 IF i <= n THEN HashChain(x, i - 1) ELSE tbl[i]],
     x |-> HashChain(x, n)]

\* mix phase, sequenceCount times: j = v mod sequenceCount; X = H(X xor table[j])
RECURSIVE MixPhase(_, _, _, _)
MixPhase(tbl, x, k, n) ==
    IF k = 0 THEN x
    ELSE MixPhase(tbl, H(Xor(x, tbl[(x % n) + 1]) % HashMod), k - 1, n)

\* one ROMix pass over the instance's table: the key and the table it leaves
OneIter(tbl, pw, salt, n) ==
    LET f == FillPhase(tbl, HashPwSalt(pw, salt), n)
    IN [key |-> FirstHalf(MixPhase(f.tbl, f.x, n, n)), tbl |-> f.tbl]

\* DeriveKey: numIterations_ passes, each key the next pass's password
RECURSIVE Iterate(_, _, _, _, _)
Iterate(tbl, pw, salt, n, iters) ==
    IF iters = 0 THEN [key |-> pw, tbl |-> tbl]
    ELSE LET r == OneIter(tbl, pw, salt, n)
         IN Iterate(r.tbl, r.key, salt, n, iters - 1)

\* computeKdfParams' memory search: double while the measured pass is under
\* target/4 and memory <= maxMemReqts; ts holds the successive measurements
RECURSIVE MemSearch(_, _, _, _)
MemSearch(memB, target, maxMem, ts) ==
    IF ts # <<>> /\ 4 * Head(ts) < target /\ memB <= maxMem
    THEN MemSearch(2 * memB, target, maxMem, Tail(ts))
    ELSE memB

\* iterations = max(1, floor(target / t1))
CalibrateIter(target, t1) ==
    IF target \div t1 >= 1 THEN target \div t1 ELSE 1

NoHist == [pw |-> -1, out |-> -1, other |-> FALSE]
\* hist after a derivation of pw giving key: the first DeriveKey since the
\* parameters were set is remembered, later other passwords are noted
NoteDerive(h, pw, key, full) ==
    IF h = NoHist
    THEN (IF full THEN [pw |-> pw, out |-> key, other |-> FALSE] ELSE h)
    ELSE [h EXCEPT !.other = h.other \/ pw # h.pw]
KdfRec(name, pw, memB, out, seq, err) ==
    [op |-> name, pw |-> pw, mem |-> memB, out |-> out, seq |-> seq, err |-> err]

\* KdfRomix(void)
KdfRomix_default ==
    /\ kdf.state = "none"
    /\ kdf' = [kdf EXCEPT !.state = "unset"]
    /\ lastKdf' = KdfRec("KdfRomix", -1, -1, -1, -1, "")
    /\ UNCHANGED <<table, hist>>

\* variant: parameters stored without the size check
SetParams_unchecked(name, memB, it, salt) ==
    /\ kdf' = [state |-> "set", mem |-> memB, iters |-> it, salt |-> salt]
    /\ table' = ResizeTable(table, SequenceCount(memB))
    /\ hist' = NoHist
    /\ lastKdf' = KdfRec(name, -1, memB, -1, -1, "")

\* parameters below one hash block are refused with BadParams and nothing
\* changes; otherwise they are stored and the table is sized to them
SetParams(name, memB, it, salt) ==
    IF memB < HashOutputBytes
    THEN /\ lastKdf' = KdfRec(name, -1, memB, -1, -1, "BadParams")
         /\ UNCHANGED <<kdf, table, hist>>
    ELSE /\ kdf' = [state |-> "set", mem |-> memB, iters |-> it, salt |-> salt]
         /\ table' = ResizeTable(table, SequenceCount(memB))
         /\ hist' = NoHist
         /\ lastKdf' = KdfRec(name, -1, memB, -1, -1, "")

\* KdfRomix(uint32_t memReqts, uint32_t numIter, SecureBinaryData salt)
KdfRomix_params(memB, it, salt) ==
    /\ kdf.state = "none"
    /\ SetParams("KdfRomix", memB, it, salt)

\* usePrecomputedKdfParams(memReqts, numIter, salt)
usePrecomputedKdfParams(memB, it, salt) ==
    /\ kdf.state # "none"
    /\ SetParams("usePrecomputedKdfParams", memB, it, salt)

\* computeKdfParams(targetComputeSec, maxMemReqts); ts and t1 are what the
\* timer reads, salt is the fresh random salt
computeKdfParams(target, maxMem, ts, t1, salt) ==
    /\ kdf.state # "none"
    /\ LET memB == MemSearch(StartMemory, target, maxMem, ts)
           n == SequenceCount(memB)
       IN /\ kdf' = [state |-> "set", mem |-> memB,
                     iters |-> CalibrateIter(target, t1), salt |-> salt]
          /\ table' = OneIter(ResizeTable(table, n), 0, salt, n).tbl
          /\ lastKdf' = KdfRec("computeKdfParams", -1, maxMem, -1, n, "")
    /\ hist' = NoHist

\* DeriveKey_OneIter(password)
DeriveKey_OneIter(pw) ==
    /\ kdf.state = "set"
    /\ LET n == SequenceCount(kdf.mem)
           r == OneIter(table, pw, kdf.salt, n)
       IN /\ table' = r.tbl
          /\ lastKdf' = KdfRec("DeriveKey_OneIter", pw, -1, r.key, n, "")
          /\ hist' = NoteDerive(hist, pw, r.key, FALSE)
    /\ UNCHANGED kdf

\* variant: DeriveKey counting numIterations_ itself down to zero
DeriveKey_countdown(pw) ==
    /\ kdf.state = "set"
    /\ LET n == SequenceCount(kdf.mem)
           r == Iterate(table, pw, kdf.salt, n, kdf.iters)
       IN /\ table' = r.tbl
          /\ lastKdf' = KdfRec("DeriveKey", pw, -1, r.key, n, "")
          /\ hist' = NoteDerive(hist, pw, r.key, TRUE)
    /\ kdf' = [kdf EXCEPT !.iters = 0]

\* DeriveKey(password)
DeriveKey(pw) ==
    /\ kdf.state = "set"
    /\ LET n == SequenceCount(kdf.mem)
           r == Iterate(table, pw, kdf.salt, n, kdf.iters)
       IN /\ table' = r.tbl
          /\ lastKdf' = KdfRec("DeriveKey", pw, -1, r.key, n, "")
          /\ hist' = NoteDerive(hist, pw, r.key, TRUE)
    /\ UNCHANGED kdf

\* uint32_t getMemoryReqtBytes(void) const { return memoryReqtBytes_; }
getMemoryReqtBytes ==
    /\ kdf.state # "none"
    /\ lastKdf' = KdfRec("getMemoryReqtBytes", -1, -1, kdf.mem, -1, "")
    /\ UNCHANGED <<kdf, table, hist>>

\* uint32_t getNumIterations(void) const { return numIterations_; }
getNumIterations ==
    /\ kdf.state # "none"
    /\ lastKdf' = KdfRec("getNumIterations", -1, -1, kdf.iters, -1, "")
    /\ UNCHANGED <<kdf, table, hist>>

\* SecureBinaryData getSalt(void) const { return salt_; }
getSalt ==
    /\ kdf.state # "none"
    /\ lastKdf' = KdfRec("getSalt", -1, -1, kdf.salt, -1, "")
    /\ UNCHANGED <<kdf, table, hist>>

BufIdle ==
    /\ mem = [a \in Addr |-> 0]
    /\ locked = {}
    /\ bufs = [b \in Bufs |-> Dead]
    /\ lastOp = [op |-> "none"]

KdfInit ==
    /\ kdf = [state |-> "none", mem |-> 0, iters |-> 0, salt |-> 0]
    /\ table = <<>>
    /\ hist = NoHist
    /\ lastKdf = KdfRec("none", -1, -1, -1, -1, "")

InitKdf == BufIdle /\ KdfInit /\ AesIdle
KdfFrame == UNCHANGED <<bufVars, aesVars>>
NextKdf ==
    \/ KdfRomix_default /\ KdfFrame
    \/ \E m \in MemChoices, it \in 1..MaxIter, s \in Salts :
          KdfRomix_params(m, it, s) /\ KdfFrame
    \/ \E m \in MemChoices, it \in 1..MaxIter, s \in Salts :
          usePrecomputedKdfParams(m, it, s) /\ KdfFrame
    \/ \E tg \in Targets, mx \in MaxMemChoices, ts \in [1..3 -> Timings],
          t1 \in CalTimes, s \in Salts :
          computeKdfParams(tg, mx, ts, t1, s) /\ KdfFrame
    \/ \E pw \in Passwords : DeriveKey_OneIter(pw) /\ KdfFrame
    \/ \E pw \in Passwords : DeriveKey(pw) /\ KdfFrame
    \/ getMemoryReqtBytes /\ KdfFrame
    \/ getNumIterations /\ KdfFrame
    \/ getSalt /\ KdfFrame
SpecKdf == InitKdf /\ [][NextKdf]_vars

(***************************************************************************)
(* CryptoAES.  The caller owns three buffers; Encrypt receives all three   *)
(* by reference, Decrypt receives data and key by reference and iv by      *)
(* value.                                                                  *)
(***************************************************************************)
AesBlockSize == 16
AesKeyLens == {16, 24, 32}

Rep(n, b) == [i \in 1..n |-> b]
AesDatas == {<<>>, <<1>>, <<1, 2>>, <<7, 0, 9>>}
AesKeys == {Rep(n, b) : n \in {0, 8, 16, 24, 32}, b \in {1, 2}}
AesIvs == {Rep(n, b) : n \in {0, 8, AesBlockSize}, b \in {3, 4}}

RECURSIVE SumSeq(_)
SumSeq(q) == IF q = <<>> THEN 0 ELSE Head(q) + SumSeq(Tail(q))

\* byte i of the first CFB keystream block E_key(iv)
KeyStream(key, iv, i) == (SumSeq(key) + (3 * SumSeq(iv)) + (7 * i)) % 256
\* CFB over at most one block: output byte = input byte xor keystream byte
CfbXor(d, key, iv) == [i \in 1..Len(d) |-> Xor(d[i], KeyStream(key, iv, i))]

AesRet(out, err, d, key, iv) ==
    [out |-> out, err |-> err, data |-> d, key |-> key, iv |-> iv]

\* variant: an empty iv is replaced, through the reference, by a generated one
AesBody_genIv(d, key, iv) ==
    IF Len(key) \notin AesKeyLens THEN AesRet(<<>>, "BadKeyLength", d, key, iv)
    ELSE IF Len(iv) = 0
         THEN AesRet(CfbXor(d, key, Rep(AesBlockSize, 9)), "", d, key,
                     Rep(AesBlockSize, 9))
    ELSE IF Len(iv) # AesBlockSize THEN AesRet(<<>>, "BadIvLength", d, key, iv)
    ELSE AesRet(CfbXor(d, key, iv), "", d, key, iv)

\* body shared by Encrypt and Decrypt: the result, the error, and the values
\* the three parameter objects hold when it returns
AesBody(d, key, iv) ==
    IF Len(key) \notin AesKeyLens THEN AesRet(<<>>, "BadKeyLength", d, key, iv)
    ELSE IF Len(iv) # AesBlockSize THEN AesRet(<<>>, "BadIvLength", d, key, iv)
    ELSE AesRet(CfbXor(d, key, iv), "", d, key, iv)

\* Encrypt(SecureBinaryData & data, SecureBinaryData & key, SecureBinaryData & iv)
Encrypt ==
    LET r == AesBody(aesData, aesKey, aesIv)
    IN /\ aesData' = r.data
       /\ aesKey' = r.key
       /\ aesIv' = r.iv
       /\ lastAes' = [op |-> "Encrypt", out |-> r.out, err |-> r.err]

\* Decrypt(SecureBinaryData & data, SecureBinaryData & key, SecureBinaryData iv)
Decrypt ==
    LET r == AesBody(aesData, aesKey, aesIv)
    IN /\ aesData' = r.data
       /\ aesKey' = r.key
       /\ aesIv' = aesIv
       /\ lastAes' = [op |-> "Decrypt", out |-> r.out, err |-> r.err]

\* the caller feeds the last result back in as the next call's data
LoadResult ==
    /\ lastAes.op \in {"Encrypt", "Decrypt"} /\ lastAes.err = ""
    /\ aesData' = lastAes.out
    /\ lastAes' = [op |-> "load", out |-> <<>>, err |-> ""]
    /\ UNCHANGED <<aesKey, aesIv>>

AesInit ==
    /\ aesData \in AesDatas
    /\ aesKey \in AesKeys
    /\ aesIv \in AesIvs
    /\ lastAes = [op |-> "none", out |-> <<>>, err |-> ""]

InitAes ==
    /\ BufIdle
    /\ kdf = [state |-> "none"] /\ table = <<>> /\ hist = <<>>
    /\ lastKdf = [op |-> "none"]
    /\ AesInit
AesFrame == UNCHANGED <<bufVars, kdfVars>>
NextAes ==
    \/ Encrypt /\ AesFrame
    \/ Decrypt /\ AesFrame
    \/ LoadResult /\ AesFrame
SpecAes == InitAes /\ [][NextAes]_vars

(***************************************************************************)
(* Properties of SecureBinaryData                                          *)
(***************************************************************************)
LockedAll(lk, v) == \A i \in 0..(v.size - 1) : PageOf(v.ptr + i) \in lk

\* C1: under its own operations (constructors, copy construction, resize,
\* reserve, append, assignment), whenever buffer 1 holds at least one byte,
\* every page holding one of its bytes is locked.
C1_LockedWhileNonEmpty ==
    (bufs[1].live /\ bufs[1].size > 0) => LockedAll(locked, bufs[1])

\* buffer 1 holds bytes in storage that a resize has just moved
C1_Witness ==
    /\ bufs[1].live /\ bufs[1].size > 0
    /\ lastOp.op = "resize" /\ lastOp.b = 1 /\ lastOp.rel

\* C2: when a buffer is destroyed or reassigned, every byte of the storage it
\* gives up (its whole capacity) is zero at the moment of release.
C2_ZeroBeforeRelease ==
    (lastOp.op \in {"destructor", "assign"} /\ lastOp.rel) => lastOp.relZero

\* C3: when resize or reserve moves a buffer to new storage, the new storage
\* is locked and the abandoned storage is all zero and unlocked at release.
C3_ReallocWipesOld ==
    (lastOp.op \in {"resize", "reserve"} /\ lastOp.rel) =>
        /\ lastOp.relZero
        /\ ~lastOp.relLocked
        /\ LockedAll(locked, bufs[lastOp.b])

\* C4: a copy (copy construction or assignment) has the source's bytes in
\* storage of its own, and no operation on one buffer changes the length or
\* the bytes of any other live buffer: mutating a copy leaves the original
\* as it was, and the other way round.
C4_CopyIndependent ==
    [][/\ lastOp'.op \in {"copy", "assign"}
          => LET b == lastOp'.b
                 c == lastOp'.src
             IN /\ ContentsOf(mem', bufs'[b]) = ContentsOf(mem, bufs[c])
                /\ BlockOf(bufs'[b]) \cap BlockOf(bufs'[c]) = {}
       /\ \A b \in Bufs :
             (bufs[b].live /\ lastOp'.b # b)
             => (/\ bufs'[b].live
                 /\ ContentsOf(mem', bufs'[b]) = ContentsOf(mem, bufs[b]))]_vars

\* buffer 2 has just been copy-constructed from buffer 1, which holds a
\* non-zero byte
C4_Witness ==
    /\ lastOp.op = "copy" /\ lastOp.b = 2 /\ lastOp.src = 1
    /\ bufs[1].live /\ bufs[2].live
    /\ \E i \in 1..bufs[1].size : ContentsOf(mem, bufs[1])[i] # 0
    /\ ContentsOf(mem, bufs[1]) = ContentsOf(mem, bufs[2])
    /\ bufs[1].ptr # bufs[2].ptr

\* C10: the destructor of one buffer leaves every page of another live,
\* non-empty, fully locked buffer locked.
C10_DestroyKeepsOthersLocked ==
    [][\A b, c \in Bufs :
          (b # c /\ lastOp'.op = "destructor" /\ lastOp'.b = b
                 /\ bufs[c].live /\ bufs[c].size > 0
                 /\ LockedAll(locked, bufs[c]))
          => LockedAll(locked', bufs[c])]_vars

(***************************************************************************)
(* Properties of KdfRomix                                                  *)
(***************************************************************************)
SameParams(k1, k2) ==
    k1.mem = k2.mem /\ k1.iters = k2.iters /\ k1.salt = k2.salt
DeriveOps == {"DeriveKey", "DeriveKey_OneIter"}
GetterOps == {"getMemoryReqtBytes", "getNumIterations", "getSalt"}
SetterOps == {"KdfRomix", "usePrecomputedKdfParams"}

\* C5: under unchanged parameters, DeriveKey of a password returns the key
\* the first DeriveKey of that password returned, whatever derivations of
\* other passwords have left in the lookup table in between.
C5_DeriveDeterministic ==
    [][(lastKdf'.op = "DeriveKey" /\ hist.pw = lastKdf'.pw)
          => lastKdf'.out = hist.out]_vars

\* a password has just been derived again after another password used the table
C5_Witness ==
    /\ lastKdf.op = "DeriveKey" /\ hist.pw = lastKdf.pw /\ hist.other
    /\ lastKdf.out = hist.out

====
